---- MODULE Spec2Model ----
(***************************************************************************)
(* pico_sim: a breadboard simulator for a Raspberry Pi Pico.               *)
(* The model covers src/pico-simulator/src/App.js: the Python engine hook  *)
(* (pin-state vector, run / stop), the grid addressing functions, the      *)
(* circuit continuity evaluation (useMemo block) and the circuit editor.   *)
(***************************************************************************)
EXTENDS Integers, Sequences, FiniteSets, TLC

VARIABLES
    wires,          \* useState: list of wires       [id, sR, sC, eR, eC]
    leds,           \* useState: list of LEDs        [id, sR, sC, eR, eC]
    resistors,      \* useState: list of resistors   [id, sR, sC, eR, eC]
    pinStates,      \* useState: pin number -> BOOLEAN (partial map)
    ready,          \* useState: Pyodide loaded, window.picoPinUpdate installed
    isRunningRef,   \* useRef: gate of the pin-update callback
    progs,          \* programs whose runPythonAsync promise is still pending
    nRuns,          \* number of programs started so far
    toolMode,       \* useState: 'cursor' | 'wire' | 'led' | 'resistor'
    draftStart,     \* useState: first clicked hole of a gesture, or null
    editingId,      \* useState: id of the component being edited, or null
    editType,       \* useState: kind of the component being edited, or null
    selectedHole,   \* useState: hole selected in cursor mode, or null
    now,            \* the wall clock read by Date.now()
    nEdits          \* number of changes made to the circuit so far

vars == << wires, leds, resistors, pinStates, ready, isRunningRef, progs, nRuns,
           toolMode, draftStart, editingId, editType, selectedHole, now, nEdits >>

circuitVars == << wires, leds, resistors >>
engineVars  == << pinStates, ready, isRunningRef, progs, nRuns >>
editorVars  == << toolMode, draftStart, editingId, editType, selectedHole >>

-----------------------------------------------------------------------------
(* Strings are sequences of one-character strings, so that the formatting   *)
(* of a hole id and its later split('-') / parseInt are computed.           *)

DigitChars == << "0", "1", "2", "3", "4", "5", "6", "7", "8", "9" >>

IsDigit(c) == \E d \in 1..10 : DigitChars[d] = c

DigitVal(c) == (CHOOSE d \in 1..10 : DigitChars[d] = c) - 1

\* `${row}` for a non-negative integer row
RECURSIVE NumToStr(_)
NumToStr(n) ==
    IF n < 10 THEN << DigitChars[n + 1] >>
    ELSE NumToStr(n \div 10) \o << DigitChars[(n % 10) + 1] >>

\* the value parseInt gives when the string has no leading digit
NaN == -1

RECURSIVE ParseDigits(_, _, _)
ParseDigits(s, i, acc) ==
    IF i > Len(s) \/ ~IsDigit(s[i]) THEN acc
    ELSE ParseDigits(s, i + 1, acc * 10 + DigitVal(s[i]))

parseInt(s) ==
    IF s = << >> \/ ~IsDigit(s[1]) THEN NaN ELSE ParseDigits(s, 1, 0)

\* s.split('-')
RECURSIVE SplitFrom(_, _, _, _)
SplitFrom(s, i, cur, acc) ==
    IF i > Len(s) THEN Append(acc, cur)
    ELSE IF s[i] = "-" THEN SplitFrom(s, i + 1, << >>, Append(acc, cur))
    ELSE SplitFrom(s, i + 1, Append(cur, s[i]), acc)

split(s) == SplitFrom(s, 1, << >>, << >>)

startsWithP(s) == Len(s) > 0 /\ s[1] = "P"

-----------------------------------------------------------------------------
(* Grid addressing                                                          *)

ROW_COUNT == 30

\* every hole the Breadboard component renders (and makes clickable)
BoardHoles ==
    { << r, c >> : r \in 1..ROW_COUNT, c \in 1..10 }
    \cup { << r, c >> : r \in 1..ROW_COUNT, c \in { 0, -1, 11, 12 } }

getHoleId(row, col) ==
    IF col = 0 THEN << "P", "L", "+", "-" >> \o NumToStr(row)
    ELSE IF col = -1 THEN << "P", "L", "-", "-" >> \o NumToStr(row)
    ELSE IF col = 11 THEN << "P", "R", "+", "-" >> \o NumToStr(row)
    ELSE IF col = 12 THEN << "P", "R", "-", "-" >> \o NumToStr(row)
    ELSE (IF col <= 5 THEN << "L" >> ELSE << "R" >>) \o << "-" >> \o NumToStr(row)

GND_ROWS == { 3, 8, 13, 18, 23, 28 }

\* null result of getGpioFromHole
NoPin == -1

leftMap ==
    (1 :> 0) @@ (2 :> 1) @@ (4 :> 2) @@ (5 :> 3) @@ (6 :> 4) @@ (7 :> 5) @@
    (9 :> 6) @@ (10 :> 7) @@ (11 :> 8) @@ (12 :> 9) @@ (14 :> 10) @@ (15 :> 11) @@
    (16 :> 12) @@ (17 :> 13) @@ (19 :> 14) @@ (20 :> 15)

rightMap ==
    (20 :> 16) @@ (19 :> 17) @@ (17 :> 18) @@ (16 :> 19) @@ (15 :> 20) @@
    (14 :> 21) @@ (12 :> 22) @@ (10 :> 26) @@ (9 :> 27) @@ (7 :> 28)

getGpioFromHole(row, col) ==
    IF col < 1 \/ col > 10 THEN NoPin
    ELSE IF col <= 5
         THEN (IF row \in DOMAIN leftMap THEN leftMap[row] ELSE NoPin)
         ELSE (IF row \in DOMAIN rightMap THEN rightMap[row] ELSE NoPin)

\* the labels the Pico component draws beside its 20 pin pairs, pin i at row i
leftPins ==
    << "GP0", "GP1", "GND", "GP2", "GP3", "GP4", "GP5", "GND", "GP6", "GP7",
       "GP8", "GP9", "GND", "GP10", "GP11", "GP12", "GP13", "GND", "GP14", "GP15" >>

rightPins ==
    << "VBUS", "VSYS", "GND", "3V3_EN", "3V3", "ADC_REF", "GP28", "GND", "GP27", "GP26",
       "RUN", "GP22", "GND", "GP21", "GP20", "GP19", "GP18", "GND", "GP17", "GP16" >>

-----------------------------------------------------------------------------
(* The continuity evaluation (the useMemo block), as a function of the      *)
(* three component lists ws, ls, rs and the pin-state vector ps.            *)

RECURSIVE Dedup(_, _)
\* insertion order of a JS Set: s appended to acc, first occurrences only
Dedup(acc, s) ==
    IF s = << >> THEN acc
    ELSE IF \E i \in 1..Len(acc) : acc[i] = Head(s) THEN Dedup(acc, Tail(s))
    ELSE Dedup(Append(acc, Head(s)), Tail(s))

RECURSIVE Flatten(_)
Flatten(ss) == IF ss = << >> THEN << >> ELSE Head(ss) \o Flatten(Tail(ss))

SeqToSet(s) == { s[i] : i \in 1..Len(s) }

\* registerComp: one edge per component
registerComp(item) == << getHoleId(item.sR, item.sC), getHoleId(item.eR, item.eC) >>

compConns(items) == [ i \in 1..Len(items) |-> registerComp(items[i]) ]

\* mutant: the rail case is missing, every rail hole is a group of its own
getGroupKey_NoRailCase(holeId) ==
    LET parts == split(holeId) IN parts[1] \o << "-" >> \o parts[2]

\* mutant: the key of a rail hole is its side only, '+' and '-' rail share a group
getGroupKey_SideOnly(holeId) ==
    IF startsWithP(holeId) THEN SubSeq(holeId, 1, 2)
    ELSE LET parts == split(holeId) IN parts[1] \o << "-" >> \o parts[2]

getGroupKey(holeId) ==
    IF startsWithP(holeId) THEN split(holeId)[1]
    ELSE LET parts == split(holeId) IN parts[1] \o << "-" >> \o parts[2]

\* mutant: only the start terminal of a component is added to usedHoles
usedHoles_StartsOnly(ws, ls, rs) ==
    LET all == ws \o ls \o rs
    IN  Dedup(<< >>, [ i \in 1..Len(all) |-> getHoleId(all[i].sR, all[i].sC) ])

usedHoles(ws, ls, rs) ==
    LET all == ws \o ls \o rs
    IN  Dedup(<< >>, Flatten([ i \in 1..Len(all) |->
            << getHoleId(all[i].sR, all[i].sC), getHoleId(all[i].eR, all[i].eC) >> ]))

\* groups: key -> list of used holes with that key, keys in first-use order
groups(used) ==
    LET keyOf == [ i \in 1..Len(used) |-> getGroupKey(used[i]) ]
        keys == Dedup(<< >>, keyOf)
    IN  [ k \in 1..Len(keys) |->
            LET idx == SelectSeq([ i \in 1..Len(used) |-> i ], LAMBDA i : keyOf[i] = keys[k])
            IN  [ j \in 1..Len(idx) |-> used[idx[j]] ] ]

\* for (i = 0; i < list.length - 1; i++) addConn(list[i], list[i+1])
chainConns(list) == [ i \in 1..(Len(list) - 1) |-> << list[i], list[i + 1] >> ]

\* mutant: LEDs are not registered as edges
conns_NoLeds(ws, ls, rs) ==
    LET gs == groups(usedHoles(ws, ls, rs))
    IN  compConns(ws) \o compConns(rs)
        \o Flatten([ k \in 1..Len(gs) |-> chainConns(gs[k]) ])

\* every addConn call of one evaluation, in call order
conns(ws, ls, rs) ==
    LET gs == groups(usedHoles(ws, ls, rs))
    IN  compConns(ws) \o compConns(rs) \o compConns(ls)
        \o Flatten([ k \in 1..Len(gs) |-> chainConns(gs[k]) ])

\* mutant: addConn assigns instead of pushing, only the last neighbour is kept
connAdj_LastOnly(cs, h) ==
    LET nbs == Flatten([ i \in 1..Len(cs) |->
                   (IF cs[i][1] = h THEN << cs[i][2] >> ELSE << >>)
                   \o (IF cs[i][2] = h THEN << cs[i][1] >> ELSE << >>) ])
    IN  IF nbs = << >> THEN << >> ELSE << nbs[Len(nbs)] >>

\* mutant: addConn pushes id2 to connAdj[id1] only
connAdj_OneWay(cs, h) ==
    Flatten([ i \in 1..Len(cs) |-> IF cs[i][1] = h THEN << cs[i][2] >> ELSE << >> ])

\* connAdj[h] after the addConn calls in cs
connAdj(cs, h) ==
    Flatten([ i \in 1..Len(cs) |->
        (IF cs[i][1] = h THEN << cs[i][2] >> ELSE << >>)
        \o (IF cs[i][2] = h THEN << cs[i][1] >> ELSE << >>) ])

\* mutant: rail holes are not skipped by the seed loop
seedHoles_WithRails(used) ==
    [ i \in 1..Len(used) |->
        LET parts == split(used[i])
        IN  [ holeId |-> used[i],
              row |-> parseInt(parts[2]),
              col |-> IF parts[1] = << "L" >> THEN 1 ELSE 6 ] ]

\* the used holes that are not rail holes, each with the row and the column
\* the seed loop derives from its id
seedHoles(used) ==
    LET main == SelectSeq(used, LAMBDA h : ~startsWithP(h))
    IN  [ i \in 1..Len(main) |->
            LET parts == split(main[i])
            IN  [ holeId |-> main[i],
                  row |-> parseInt(parts[2]),
                  col |-> IF parts[1] = << "L" >> THEN 1 ELSE 6 ] ]

\* mutant: any entry of the vector counts as high
isHigh_AnyEntry(ps, pin) == pin \in DOMAIN ps

isHigh(ps, pin) == pin \in DOMAIN ps /\ ps[pin]

\* mutant: a pin without an entry counts as high
isSource_AbsentHigh(seed, ps) ==
    LET pin == getGpioFromHole(seed.row, seed.col)
    IN  pin # NoPin /\ (pin \notin DOMAIN ps \/ ps[pin])

isSource(seed, ps) ==
    LET pin == getGpioFromHole(seed.row, seed.col)
    IN  pin # NoPin /\ isHigh(ps, pin)

isSink(seed) == seed.row \in GND_ROWS

holeIds(seeds) == [ i \in 1..Len(seeds) |-> seeds[i].holeId ]

sources(used, ps) == holeIds(SelectSeq(seedHoles(used), LAMBDA sd : isSource(sd, ps)))

sinks(used) == holeIds(SelectSeq(seedHoles(used), isSink))

\* mutant: the neighbours are tested against the set as it was before the forEach
visitAll_StaleSeen(nexts, queue, seen) ==
    LET fresh == SelectSeq(nexts, LAMBDA n : n \notin seen)
    IN  [ queue |-> queue \o fresh, seen |-> seen \cup SeqToSet(fresh) ]

RECURSIVE visitAll(_, _, _)
\* connAdj[curr].forEach(next => if (!seen.has(next)) { seen.add(next); queue.push(next) })
visitAll(nexts, queue, seen) ==
    IF nexts = << >> THEN [ queue |-> queue, seen |-> seen ]
    ELSE IF Head(nexts) \in seen THEN visitAll(Tail(nexts), queue, seen)
    ELSE visitAll(Tail(nexts), Append(queue, Head(nexts)), seen \cup { Head(nexts) })

RECURSIVE bfsLoop(_, _, _)
\* while (queue.length > 0) { curr = queue.shift(); ... }
bfsLoop(cs, queue, seen) ==
    IF queue = << >> THEN seen
    ELSE UNION { bfsLoop(cs, st.queue, st.seen) :
                 st \in { visitAll(connAdj(cs, Head(queue)), Tail(queue), seen) } }

bfs(cs, seeds) == bfsLoop(cs, seeds, SeqToSet(seeds))

RECURSIVE bfsRun(_, _, _, _)
\* the same loop, with the nodes it takes off the queue recorded in order
bfsRun(cs, queue, seen, shifted) ==
    IF queue = << >> THEN [ seen |-> seen, shifted |-> shifted ]
    ELSE CHOOSE r \in { bfsRun(cs, st.queue, st.seen, Append(shifted, Head(queue))) :
                        st \in { visitAll(connAdj(cs, Head(queue)), Tail(queue), seen) } } : TRUE

poweredOf(ws, ls, rs, ps) == bfs(conns(ws, ls, rs), sources(usedHoles(ws, ls, rs), ps))

groundedOf(ws, ls, rs) == bfs(conns(ws, ls, rs), sinks(usedHoles(ws, ls, rs)))

\* check(item): whether the component's id is put in activeSet
check(item, pw, gr) ==
    LET h1 == getHoleId(item.sR, item.sC)
        h2 == getHoleId(item.eR, item.eC)
    IN  (h1 \in pw /\ h1 \in gr) \/ (h2 \in pw /\ h2 \in gr)

\* mutant: validNodes takes every powered node
evaluate_PoweredNodes(ws, ls, rs, ps) ==
    LET used == usedHoles(ws, ls, rs)
        cs == conns(ws, ls, rs)
        pw == bfs(cs, sources(used, ps))
        gr == bfs(cs, sinks(used))
        all == ws \o ls \o rs
    IN  [ activeIds |-> { all[i].id : i \in { j \in 1..Len(all) : check(all[j], pw, gr) } },
          activeNodes |-> pw ]

\* the value of the useMemo block
evaluate(ws, ls, rs, ps) ==
    LET used == usedHoles(ws, ls, rs)
        cs == conns(ws, ls, rs)
        pw == bfs(cs, sources(used, ps))
        gr == bfs(cs, sinks(used))
        all == ws \o ls \o rs
    IN  [ activeIds |-> { all[i].id : i \in { j \in 1..Len(all) : check(all[j], pw, gr) } },
          activeNodes |-> { n \in pw : n \in gr } ]

powered == poweredOf(wires, leds, resistors, pinStates)
grounded == groundedOf(wires, leds, resistors)
activeIds == evaluate(wires, leds, resistors, pinStates).activeIds
activeNodes == evaluate(wires, leds, resistors, pinStates).activeNodes

isCompActive(id) == id \in activeIds

-----------------------------------------------------------------------------
(* Bounds of the model                                                      *)

\* the clock stops advancing at this value
MaxNow == 4

\* at most this many programs are started
MaxRuns == 2

\* the user changes the circuit (place, move, remove, clear, load) this often
MaxEdits == 2

\* the holes the user clicks: one in a GPIO row (GP15, left row 20) and one in a
\* ground row of the right side
ClickHoles == { << 20, 1 >>, << 28, 9 >> }

\* the pins the running programs drive
Pins == { 15 }

\* circuits found in the file the user loads (any JSON of the right shape loads)
SavedFiles ==
    { [ wires |-> << [ id |-> 1, sR |-> 20, sC |-> 1, eR |-> 28, eC |-> 13 ] >>,
        leds |-> << >>, resistors |-> << >> ] }

-----------------------------------------------------------------------------
(* State after construction                                                 *)

NullId == 0             \* editingId === null
NullType == "null"      \* editType === null
NullHole == << >>       \* draftStart / selectedHole === null

\* the first value Date.now() returns; later than every id of the initial circuit
T0 == 3

Comp(id, sR, sC, eR, eC) == [ id |-> id, sR |-> sR, sC |-> sC, eR |-> eR, eC |-> eC ]

InitCircuit ==
    /\ wires = << Comp(1, 20, 2, 25, 2), Comp(2, 28, 10, 18, 10) >>
    /\ leds = << Comp(1, 25, 7, 28, 7) >>
    /\ resistors = << Comp(1, 25, 3, 25, 6) >>

InitEngine ==
    /\ pinStates = << >>
    /\ ready = FALSE
    /\ isRunningRef = FALSE
    /\ progs = { }
    /\ nRuns = 0

InitEditor ==
    /\ toolMode = "cursor"
    /\ draftStart = NullHole
    /\ editingId = NullId
    /\ editType = NullType
    /\ selectedHole = NullHole

Init == InitCircuit /\ InitEngine /\ InitEditor /\ now = T0 /\ nEdits = 0

-----------------------------------------------------------------------------
(* usePythonEngine                                                          *)

\* the init effect: Pyodide is loaded, the pin-update callback is installed
PyodideLoaded ==
    /\ ~ready
    /\ ready' = TRUE
    /\ UNCHANGED << pinStates, isRunningRef, progs, nRuns >>
    /\ UNCHANGED << circuitVars, editorVars, now, nEdits >>

\* run(code): the Run button is enabled once ready
Run ==
    /\ ready
    /\ nRuns < MaxRuns
    /\ isRunningRef' = TRUE
    /\ pinStates' = << >>
    /\ nRuns' = nRuns + 1
    /\ progs' = progs \cup { nRuns + 1 }
    /\ UNCHANGED << ready, circuitVars, editorVars, now, nEdits >>

\* stop(): the Stop button is always enabled; the pending program is not cancelled
Stop ==
    /\ isRunningRef' = FALSE
    /\ pinStates' = << >>
    /\ UNCHANGED << ready, progs, nRuns, circuitVars, editorVars, now, nEdits >>

\* setPinStates(prev => ({ ...prev, [pin]: state }))
setPin(ps, pin, state) ==
    [ q \in DOMAIN ps \cup { pin } |-> IF q = pin THEN state ELSE ps[q] ]

\* window.picoPinUpdate(pin, state), called by Pin.value() of a pending program
picoPinUpdate(p, pin, state) ==
    /\ p \in progs
    /\ pinStates' = IF isRunningRef THEN setPin(pinStates, pin, state) ELSE pinStates
    /\ UNCHANGED << ready, isRunningRef, progs, nRuns, circuitVars, editorVars, now, nEdits >>

\* runPythonAsync settles (the program returned, or raised): only a log line is added
ProgramEnd(p) ==
    /\ p \in progs
    /\ progs' = progs \ { p }
    /\ UNCHANGED << pinStates, ready, isRunningRef, nRuns, circuitVars, editorVars, now, nEdits >>

-----------------------------------------------------------------------------
(* The circuit editor                                                       *)

ToolModes == { "cursor", "wire", "led", "resistor" }

\* one more change of the circuit
Edited == nEdits < MaxEdits /\ nEdits' = nEdits + 1

\* Date.now() advances between two events
Tick ==
    /\ now < MaxNow
    /\ now' = now + 1
    /\ UNCHANGED << circuitVars, engineVars, editorVars, nEdits >>

\* mutant: the tool button does not call cancelEdit
SelectTool_KeepEdit(mode) ==
    /\ toolMode' = mode
    /\ draftStart' = NullHole
    /\ UNCHANGED << editingId, editType, selectedHole, circuitVars, engineVars, now, nEdits >>

\* a Toolbox tool button: setToolMode(mode); setDraftStart(null); cancelEdit()
SelectTool(mode) ==
    /\ toolMode' = mode
    /\ draftStart' = NullHole
    /\ editingId' = NullId
    /\ editType' = NullType
    /\ UNCHANGED << selectedHole, circuitVars, engineVars, now, nEdits >>

listOf(type) ==
    IF type = "wire" THEN wires ELSE IF type = "led" THEN leds ELSE resistors

\* the pencil button of a row of the components list
startEdit(item, type) ==
    /\ item \in SeqToSet(listOf(type))
    /\ editingId' = item.id
    /\ editType' = type
    /\ toolMode' = type
    /\ draftStart' = NullHole
    /\ UNCHANGED << selectedHole, circuitVars, engineVars, now, nEdits >>

removeById(list, id) == SelectSeq(list, LAMBDA c : c.id # id)

removeWire(id) ==
    /\ \E i \in 1..Len(wires) : wires[i].id = id
    /\ wires' = removeById(wires, id)
    /\ Edited
    /\ UNCHANGED << leds, resistors, engineVars, editorVars, now >>

removeLed(id) ==
    /\ \E i \in 1..Len(leds) : leds[i].id = id
    /\ leds' = removeById(leds, id)
    /\ Edited
    /\ UNCHANGED << wires, resistors, engineVars, editorVars, now >>

removeResistor(id) ==
    /\ \E i \in 1..Len(resistors) : resistors[i].id = id
    /\ resistors' = removeById(resistors, id)
    /\ Edited
    /\ UNCHANGED << wires, leds, engineVars, editorVars, now >>

\* mutant: the map moves every component of the list
moveById_All(list, id, sR, sC, eR, eC) ==
    [ i \in 1..Len(list) |-> Comp(list[i].id, sR, sC, eR, eC) ]

\* list.map(c => c.id === editingId ? { ...c, sR, sC, eR, eC } : c)
moveById(list, id, sR, sC, eR, eC) ==
    [ i \in 1..Len(list) |->
        IF list[i].id = id THEN Comp(list[i].id, sR, sC, eR, eC) ELSE list[i] ]

handleHoleClick(row, col) ==
    IF toolMode = "cursor"
    THEN /\ selectedHole' = << row, col >>
         /\ UNCHANGED << toolMode, draftStart, editingId, editType >>
         /\ UNCHANGED << circuitVars, engineVars, now, nEdits >>
    ELSE IF draftStart = NullHole
    THEN /\ draftStart' = << row, col >>
         /\ UNCHANGED << toolMode, editingId, editType, selectedHole >>
         /\ UNCHANGED << circuitVars, engineVars, now, nEdits >>
    ELSE LET sR == draftStart[1]
             sC == draftStart[2]
         IN  IF sR = row /\ sC = col
             THEN /\ draftStart' = NullHole
                  /\ UNCHANGED << toolMode, editingId, editType, selectedHole >>
                  /\ UNCHANGED << circuitVars, engineVars, now, nEdits >>
             ELSE IF editingId # NullId
             THEN /\ Edited
                  /\ wires' = IF editType = "wire"
                              THEN moveById(wires, editingId, sR, sC, row, col) ELSE wires
                  /\ leds' = IF editType = "led"
                             THEN moveById(leds, editingId, sR, sC, row, col) ELSE leds
                  /\ resistors' = IF editType = "resistor"
                                  THEN moveById(resistors, editingId, sR, sC, row, col)
                                  ELSE resistors
                  /\ editingId' = NullId
                  /\ editType' = NullType
                  /\ draftStart' = NullHole
                  /\ UNCHANGED << toolMode, selectedHole, engineVars, now >>
             ELSE /\ Edited
                  /\ wires' = IF toolMode = "wire"
                              THEN Append(wires, Comp(now, sR, sC, row, col)) ELSE wires
                  /\ leds' = IF toolMode = "led"
                             THEN Append(leds, Comp(now, sR, sC, row, col)) ELSE leds
                  /\ resistors' = IF toolMode = "resistor"
                                  THEN Append(resistors, Comp(now, sR, sC, row, col))
                                  ELSE resistors
                  /\ draftStart' = NullHole
                  /\ UNCHANGED << toolMode, editingId, editType, selectedHole >>
                  /\ UNCHANGED << engineVars, now >>

\* the Clear button, confirmed
clearCircuit ==
    /\ wires' = << >>
    /\ leds' = << >>
    /\ resistors' = << >>
    /\ Edited
    /\ UNCHANGED << engineVars, editorVars, now >>

\* the Load button (and the mount effect reading localStorage): the lists of the file
loadFromFile(d) ==
    /\ wires' = d.wires
    /\ leds' = d.leds
    /\ resistors' = d.resistors
    /\ Edited
    /\ UNCHANGED << engineVars, editorVars, now >>

-----------------------------------------------------------------------------
Next ==
    \/ PyodideLoaded
    \/ Run
    \/ Stop
    \/ \E p \in progs, pin \in Pins, state \in BOOLEAN : picoPinUpdate(p, pin, state)
    \/ \E p \in progs : ProgramEnd(p)
    \/ Tick
    \/ \E mode \in ToolModes : SelectTool(mode)
    \/ \E type \in { "wire", "led", "resistor" } :
         \E item \in SeqToSet(listOf(type)) : startEdit(item, type)
    \/ \E i \in 1..Len(wires) : removeWire(wires[i].id)
    \/ \E i \in 1..Len(leds) : removeLed(leds[i].id)
    \/ \E i \in 1..Len(resistors) : removeResistor(resistors[i].id)
    \/ \E h \in ClickHoles : handleHoleClick(h[1], h[2])
    \/ clearCircuit
    \/ \E d \in SavedFiles : loadFromFile(d)

Spec == Init /\ [][Next]_vars

-----------------------------------------------------------------------------
(* The evaluation on arbitrary inputs: component lists of every shape are   *)
(* built by appending components with fresh ids (what click placement and   *)
(* file loading can produce), and pin writes arrive in any order.           *)

\* at most this many components are placed
MaxEvalComps == 2

\* terminals: GP15's row (left row 20) twice, a ground row under the controller,
\* a row below the controller that GND_ROWS lists, two holes of one rail, one
\* beside a GPIO row and one beside a ground row, and a hole of the other rail
\* of that side
EvalHoles ==
    { << 20, 1 >>, << 20, 4 >>, << 18, 7 >>, << 28, 2 >>, << 20, 0 >>, << 18, 0 >>,
      << 18, -1 >> }

\* the circuits an evaluation run starts from: the empty board, and the layout of
\* the initial circuit without its resistor (GP15 - wire, and LED - wire - GND,
\* not joined across the gap), saved with distinct ids
EvalCircuits ==
    { [ wires |-> << >>, leds |-> << >>, resistors |-> << >> ],
      [ wires |-> << Comp(1, 20, 2, 25, 2), Comp(2, 28, 10, 18, 10) >>,
        leds |-> << Comp(3, 25, 7, 28, 7) >>,
        resistors |-> << >> ] }

\* pins written: GP15, and GP25 (the on-board LED, wired to no row)
EvalPins == { 15, 25 }

numComps == Len(wires) + Len(leds) + Len(resistors)

InitEval ==
    /\ \E d \in EvalCircuits : wires = d.wires /\ leds = d.leds /\ resistors = d.resistors
    /\ pinStates = << >>
    /\ ready = TRUE
    /\ isRunningRef = TRUE
    /\ progs = { 1 }
    /\ nRuns = 1
    /\ InitEditor
    /\ now = T0
    /\ nEdits = 0

\* setWires([...wires, { id, sR, sC, eR, eC }])
EvalAddWire(s, e) ==
    /\ nEdits < MaxEvalComps
    /\ wires' = Append(wires, Comp(numComps + 1, s[1], s[2], e[1], e[2]))
    /\ nEdits' = nEdits + 1
    /\ UNCHANGED << leds, resistors, engineVars, editorVars, now >>

\* setLeds([...leds, { id, sR, sC, eR, eC }])
EvalAddLed(s, e) ==
    /\ nEdits < MaxEvalComps
    /\ leds' = Append(leds, Comp(numComps + 1, s[1], s[2], e[1], e[2]))
    /\ nEdits' = nEdits + 1
    /\ UNCHANGED << wires, resistors, engineVars, editorVars, now >>

\* setResistors([...resistors, { id, sR, sC, eR, eC }])
EvalAddResistor(s, e) ==
    /\ nEdits < MaxEvalComps
    /\ resistors' = Append(resistors, Comp(numComps + 1, s[1], s[2], e[1], e[2]))
    /\ nEdits' = nEdits + 1
    /\ UNCHANGED << wires, leds, engineVars, editorVars, now >>

\* a pin-update event of the running program
EvalPinUpdate(pin, state) ==
    /\ pinStates' = setPin(pinStates, pin, state)
    /\ UNCHANGED << ready, isRunningRef, progs, nRuns, circuitVars, editorVars, now, nEdits >>

NextEval ==
    \/ \E s \in EvalHoles, e \in EvalHoles : EvalAddWire(s, e)
    \/ \E s \in EvalHoles, e \in EvalHoles : EvalAddLed(s, e)
    \/ \E s \in EvalHoles, e \in EvalHoles : EvalAddResistor(s, e)
    \/ \E pin \in EvalPins, state \in BOOLEAN : EvalPinUpdate(pin, state)

SpecEval == InitEval /\ [][NextEval]_vars

\* the evaluation runs in which the program writes GP15 only, the one pin whose
\* row the terminals reach
NextEvalGp15 ==
    \/ \E s \in EvalHoles, e \in EvalHoles : EvalAddWire(s, e)
    \/ \E s \in EvalHoles, e \in EvalHoles : EvalAddLed(s, e)
    \/ \E s \in EvalHoles, e \in EvalHoles : EvalAddResistor(s, e)
    \/ \E pin \in Pins, state \in BOOLEAN : EvalPinUpdate(pin, state)

SpecEvalGp15 == InitEval /\ [][NextEvalGp15]_vars

-----------------------------------------------------------------------------
(* The board's electrical relation on hole coordinates << row, col >>,      *)
(* against which the evaluation is compared.                                *)

allComps == wires \o leds \o resistors

isMainCol(col) == col \in 1..10

isRailCol(col) == col \in { 0, -1, 11, 12 }

\* the coordinates some component terminal occupies
occupied == { << allComps[i].sR, allComps[i].sC >> : i \in 1..Len(allComps) }
            \cup { << allComps[i].eR, allComps[i].eC >> : i \in 1..Len(allComps) }

\* the pairs of coordinates some component joins
compPairs ==
    { << << allComps[i].sR, allComps[i].sC >>, << allComps[i].eR, allComps[i].eC >> >> :
        i \in 1..Len(allComps) }

sameRowHalf(a, b) ==
    /\ isMainCol(a[2]) /\ isMainCol(b[2])
    /\ a[1] = b[1]
    /\ (a[2] <= 5) = (b[2] <= 5)

sameRail(a, b) == isRailCol(a[2]) /\ a[2] = b[2]

linked(a, b, pairs) ==
    << a, b >> \in pairs \/ << b, a >> \in pairs \/ sameRowHalf(a, b) \/ sameRail(a, b)

RECURSIVE regionFrom(_, _, _, _)
\* the least set of occupied holes that holds S and is closed under linked;
\* F holds the holes of S whose links are still to be followed
regionFrom(S, F, occ, pairs) ==
    IF F = { } THEN S
    ELSE UNION { regionFrom(S \cup N, N, occ, pairs) :
                 N \in { { b \in occ \ S : \E a \in F : linked(a, b, pairs) } } }

\* the electrical region of an occupied hole
region(a) ==
    UNION { regionFrom({ a }, { a }, occ, pairs) :
            occ \in { occupied }, pairs \in { compPairs } }

drivenHigh(a) ==
    /\ isMainCol(a[2])
    /\ \/ a[2] <= 5 /\ a[1] \in DOMAIN leftMap /\ isHigh(pinStates, leftMap[a[1]])
       \/ a[2] >= 6 /\ a[1] \in DOMAIN rightMap /\ isHigh(pinStates, rightMap[a[1]])

onGroundRow(a) == isMainCol(a[2]) /\ a[1] \in GND_ROWS

closedRegion(a) ==
    \E R \in { region(a) } :
        /\ \E b \in R : drivenHigh(b)
        /\ \E b \in R : onGroundRow(b)

distinctIds == \A i, j \in 1..Len(allComps) : allComps[i].id = allComps[j].id => i = j

-----------------------------------------------------------------------------------------------------------------------------------------------------
(* C1: in every reachable state, the energized flag a component's renderer  *)
(* gets, isCompActive(id), is true iff one of that component's own two      *)
(* terminal nodes is both powered and grounded.                             *)
ownTerminalEnergized(item) ==
    LET act == activeNodes
    IN  getHoleId(item.sR, item.sC) \in act \/ getHoleId(item.eR, item.eC) \in act

C1_FlagIffOwnTerminal ==
    \A i \in 1..Len(allComps) :
        isCompActive(allComps[i].id) <=> ownTerminalEnergized(allComps[i])

(* C2: with pairwise distinct ids, a component is in activeIds iff its      *)
(* electrical region holds an occupied main-grid hole of a driven-high pin  *)
(* row and an occupied main-grid hole of a ground row.                      *)
C2_ActiveIffClosedRegion ==
    LET act == activeIds
    IN  distinctIds =>
            \A i \in 1..Len(allComps) :
                (allComps[i].id \in act)
                    <=> closedRegion(<< allComps[i].sR, allComps[i].sC >>)

\* a series chain through a rail is active as a whole (scenario C)
C2_Witness ==
    /\ Len(wires) = 2
    /\ wires[1] = Comp(1, 20, 1, 20, 0)
    /\ wires[2] = Comp(2, 18, 0, 18, 7)
    /\ activeIds = { 1, 2 }

(* C3: when the pin-state vector is empty or all false, activeIds and       *)
(* activeNodes are empty, whatever the circuit (so they are empty right     *)
(* after the only high pin is written low).                                 *)
allLow(ps) == \A pin \in DOMAIN ps : ~ps[pin]

C3_NoSourceNoActive ==
    allLow(pinStates) => (activeIds = { } /\ activeNodes = { })

\* GP15 was written low on a circuit that is energized when GP15 is high
C3_Witness ==
    /\ DOMAIN pinStates = { 15 }
    /\ ~pinStates[15]
    /\ evaluate(wires, leds, resistors, setPin(pinStates, 15, TRUE)).activeIds # { }

(* C4: when no component terminal is in a main-grid hole of a ground row,   *)
(* activeIds is empty, whatever the pin states.                             *)
C4_NoGroundNoActive ==
    (\A a \in occupied : ~onGroundRow(a)) => activeIds = { }

\* GP15 is high and drives a component that reaches a rail hole beside row 18
C4_Witness ==
    /\ isHigh(pinStates, 15)
    /\ \A a \in occupied : ~onGroundRow(a)
    /\ \E i \in 1..Len(allComps) : allComps[i] = Comp(allComps[i].id, 20, 1, 18, 0)

(* C5: with the pin states fixed, appending one wire removes no node from   *)
(* activeNodes and no component from activeIds.                             *)
wireAdded ==
    /\ Len(wires') = Len(wires) + 1
    /\ SubSeq(wires', 1, Len(wires)) = wires
    /\ leds' = leds /\ resistors' = resistors /\ pinStates' = pinStates

C5_AddWireMonotone ==
    [][ wireAdded =>
            \E before \in { evaluate(wires, leds, resistors, pinStates) },
               after \in { evaluate(wires', leds, resistors, pinStates) } :
                /\ before.activeNodes \subseteq after.activeNodes
                /\ before.activeIds \subseteq after.activeIds ]_vars

\* the last wire joined a driven region and a grounded region: nothing was
\* energized without it
C5_Witness ==
    /\ Len(wires) >= 1
    /\ numComps >= 3
    /\ activeNodes # { }
    /\ evaluate(SubSeq(wires, 1, Len(wires) - 1), leds, resistors, pinStates).activeNodes = { }

(* C7: the pin-state vector is empty whenever no program is executing (it   *)
(* is reset when a program starts, is stopped, finishes or fails).          *)
C7_IdleMeansNoPins ==
    progs = { } => DOMAIN pinStates = { }

(* C8: a component with a terminal column outside {-1, 0, 1..10, 11, 12}    *)
(* is rejected: it is never mapped to a row node and classified energized.  *)
validCol(col) == col \in -1..12

C8_InvalidColumnRejected ==
    LET ids == activeIds
    IN  \A i \in 1..Len(allComps) :
            (~validCol(allComps[i].sC) \/ ~validCol(allComps[i].eC))
                => allComps[i].id \notin ids

(* C9: a used main-grid hole is a grounded seed iff the controller (rows 1  *)
(* to 20) shows a pin labelled GND at the hole's row, left or right.        *)
picoGndAt(row) ==
    /\ row \in 1..Len(leftPins)
    /\ (leftPins[row] = "GND" \/ rightPins[row] = "GND")

C9_GroundRowsArePicoGnd ==
    LET seeds == seedHoles(usedHoles(wires, leds, resistors))
    IN  \A i \in 1..Len(seeds) : isSink(seeds[i]) <=> picoGndAt(seeds[i].row)

(* C10: the powered seeds are exactly the nodes of the occupied main-grid   *)
(* holes whose row the side's pin table maps to a pin written true; rail    *)
(* holes are never seeds, and rows 21 to 30 never give a powered seed.      *)
C10_PoweredSeeds ==
    LET used == usedHoles(wires, leds, resistors)
        src == SeqToSet(sources(used, pinStates))
        snk == SeqToSet(sinks(used))
    IN  /\ src = { getHoleId(a[1], a[2]) : a \in { b \in occupied : drivenHigh(b) } }
        /\ \A a \in occupied :
             isRailCol(a[2]) => getHoleId(a[1], a[2]) \notin (src \cup snk)
        /\ \A a \in occupied :
             (isMainCol(a[2]) /\ a[1] \in 21..ROW_COUNT) => getHoleId(a[1], a[2]) \notin src

\* GP15 and GP25 are high; a rail hole beside GP15's row, a rail hole beside a
\* ground row and a hole of row 28 are used: the only powered seed is L-20
C10_Witness ==
    /\ isHigh(pinStates, 15) /\ isHigh(pinStates, 25)
    /\ { << 20, 4 >>, << 20, 0 >>, << 18, 0 >>, << 28, 2 >> } \subseteq occupied
    /\ sources(usedHoles(wires, leds, resistors), pinStates) = << getHoleId(20, 1) >>

(* C11: in every state reached from the initial circuit by placements,      *)
(* edits and removals, no two placed components, of the same kind or of     *)
(* different kinds, have the same id.                                       *)
C11_UniqueIds ==
    \A i, j \in 1..Len(allComps) : i # j => allComps[i].id # allComps[j].id

(* C12: giving one component the next kind (moving it to the list of that   *)
(* kind) and giving every component display metadata changes neither        *)
(* activeIds nor activeNodes, whatever the pin states.                      *)
\* wire -> led -> resistor -> wire: repeated, it gives a component every kind
nextKind(k) == IF k = "wire" THEN "led" ELSE IF k = "led" THEN "resistor" ELSE "wire"

kindOf(i) ==
    IF i <= Len(wires) THEN "wire"
    ELSE IF i <= Len(wires) + Len(leds) THEN "led" ELSE "resistor"

dropAt(list, j) == SubSeq(list, 1, j - 1) \o SubSeq(list, j + 1, Len(list))

\* the circuit with component i of allComps taken out of its list and put at the
\* end of the list of kind k
reKinded(i, k) ==
    LET nw == Len(wires)
        nl == Len(leds)
        ws0 == IF kindOf(i) = "wire" THEN dropAt(wires, i) ELSE wires
        ls0 == IF kindOf(i) = "led" THEN dropAt(leds, i - nw) ELSE leds
        rs0 == IF kindOf(i) = "resistor" THEN dropAt(resistors, i - nw - nl) ELSE resistors
    IN  [ wires |-> IF k = "wire" THEN Append(ws0, allComps[i]) ELSE ws0,
          leds |-> IF k = "led" THEN Append(ls0, allComps[i]) ELSE ls0,
          resistors |-> IF k = "resistor" THEN Append(rs0, allComps[i]) ELSE rs0 ]

\* the same components with display metadata: name, and color or ohms by position
decorated(list, name) ==
    [ i \in 1..Len(list) |->
        [ id |-> list[i].id, sR |-> list[i].sR, sC |-> list[i].sC,
          eR |-> list[i].eR, eC |-> list[i].eC,
          name |-> name, color |-> IF i = 1 THEN "green" ELSE "black", ohms |-> 330 * i ] ]

C12_KindAndMetadataIrrelevant ==
    \E base \in { evaluate(wires, leds, resistors, pinStates) } :
        \A i \in 1..Len(allComps) :
            \E d \in { reKinded(i, nextKind(kindOf(i))) } :
                \E ws \in { decorated(d.wires, "Wire X") },
                   ls \in { decorated(d.leds, "LED X") },
                   rs \in { decorated(d.resistors, "Res X") } :
                    evaluate(ws, ls, rs, pinStates) = base

\* the LED of the start layout is energized through an added wire: as a wire or a
\* resistor it would be classified the same
C12_Witness ==
    /\ Len(leds) >= 1 /\ Len(wires) >= 3
    /\ leds[1].id \in activeIds
    /\ wires[3].id \in activeIds

(* C13: two occupied holes are connected in the built graph iff they are in *)
(* the same electrical region (closure of: terminals of one component, same *)
(* row and side of the main grid, same rail); so the '+' and '-' rail of a  *)
(* side, and the two halves of a row, are joined only through components.   *)
edgesOf(cs) == { << cs[i][1], cs[i][2] >> : i \in 1..Len(cs) }

RECURSIVE closureFrom(_, _, _)
\* the least set of nodes that holds S and is closed under the edges E;
\* F holds the nodes of S whose edges are still to be followed
closureFrom(S, F, E) ==
    IF F = { } THEN S
    ELSE UNION { closureFrom(S \cup N, N, E) :
                 N \in { ({ e[2] : e \in { d \in E : d[1] \in F } }
                          \cup { e[1] : e \in { d \in E : d[2] \in F } }) \ S } }

\* the nodes connected to the nodes of S in the graph the evaluation builds
connectedTo(S) ==
    UNION { closureFrom(S, S, E) : E \in { edgesOf(conns(wires, leds, resistors)) } }

C13_GraphMatchesRegions ==
    \E E \in { edgesOf(conns(wires, leds, resistors)) },
       occ \in { occupied }, pairs \in { compPairs } :
        \A a \in occ :
            \E G \in { closureFrom({ getHoleId(a[1], a[2]) }, { getHoleId(a[1], a[2]) }, E) },
               R \in { regionFrom({ a }, { a }, occ, pairs) } :
                \A b \in occ : (getHoleId(b[1], b[2]) \in G) <=> (b \in R)

\* two holes of the '+' rail are used and chained, a hole of the '-' rail beside
\* one of them is used and not connected to them
C13_Witness ==
    /\ { << 20, 0 >>, << 18, 0 >>, << 18, -1 >> } \subseteq occupied
    /\ getHoleId(18, 0) \in connectedTo({ getHoleId(20, 0) })
    /\ getHoleId(18, -1) \notin connectedTo({ getHoleId(20, 0) })

(* C14: each of the two traversals ends, takes every node off its queue at  *)
(* most once, and ends with exactly the nodes connected to a seed, every    *)
(* seed included.                                                           *)
noRepeat(seq) == \A i, j \in 1..Len(seq) : seq[i] = seq[j] => i = j

traversalOk(cs, seeds, bound) ==
    \E run \in { bfsRun(cs, seeds, SeqToSet(seeds), << >>) } :
        /\ noRepeat(run.shifted)
        /\ Len(run.shifted) <= bound
        /\ SeqToSet(run.shifted) = run.seen
        /\ run.seen = bfs(cs, seeds)
        /\ SeqToSet(seeds) \subseteq run.seen
        /\ run.seen = closureFrom(SeqToSet(seeds), SeqToSet(seeds), edgesOf(cs))

C14_TraversalClosure ==
    \E used \in { usedHoles(wires, leds, resistors) }, cs \in { conns(wires, leds, resistors) } :
        /\ traversalOk(cs, sources(used, pinStates), Len(used))
        /\ traversalOk(cs, sinks(used), Len(used))

\* a node has the same neighbour twice in its adjacency list, the powered
\* traversal reaches three nodes and leaves another used hole out
C14_Witness ==
    /\ \E i, j \in 1..Len(allComps) : i # j /\ registerComp(allComps[i]) = registerComp(allComps[j])
    /\ Cardinality(powered) >= 3
    /\ \E h \in SeqToSet(usedHoles(wires, leds, resistors)) : h \notin powered

(* C16: the start terminal node of a component is powered and grounded iff  *)
(* its end terminal node is; so the rule "one terminal powered and          *)
(* grounded" and the rule "both terminals" select the same components.      *)
strictCheck(item, pw, gr) ==
    LET h1 == getHoleId(item.sR, item.sC)
        h2 == getHoleId(item.eR, item.eC)
    IN  (h1 \in pw /\ h1 \in gr) /\ (h2 \in pw /\ h2 \in gr)

C16_TerminalsAgree ==
    \E pw \in { powered }, gr \in { grounded } :
        \A i \in 1..Len(allComps) :
            /\ (getHoleId(allComps[i].sR, allComps[i].sC) \in pw \cap gr)
                 <=> (getHoleId(allComps[i].eR, allComps[i].eC) \in pw \cap gr)
            /\ check(allComps[i], pw, gr) <=> strictCheck(allComps[i], pw, gr)

\* an energized component joins two different nodes
C16_Witness ==
    \E i \in 1..Len(allComps) :
        /\ getHoleId(allComps[i].sR, allComps[i].sC) # getHoleId(allComps[i].eR, allComps[i].eC)
        /\ getHoleId(allComps[i].sR, allComps[i].sC) \in activeNodes
        /\ getHoleId(allComps[i].eR, allComps[i].eC) \in activeNodes

(* C18: swapping the start and end of one component, or listing the         *)
(* components of each kind in another order, changes neither activeIds nor  *)
(* activeNodes, whatever the pin states.                                    *)
Reverse(list) == [ k \in 1..Len(list) |-> list[Len(list) + 1 - k] ]

\* the first component moved to the end (the reverse, for a list of two)
Rotate(list) == IF list = << >> THEN list ELSE Append(Tail(list), Head(list))

\* component j of the list with its terminals swapped
flipAt(list, j) ==
    [ k \in 1..Len(list) |->
        IF k = j THEN Comp(list[k].id, list[k].eR, list[k].eC, list[k].sR, list[k].sC)
        ELSE list[k] ]

C18_OrderAndOrientationIrrelevant ==
    \E base \in { evaluate(wires, leds, resistors, pinStates) } :
        /\ \A i \in 1..Len(allComps) :
             evaluate(flipAt(wires, i), flipAt(leds, i - Len(wires)),
                      flipAt(resistors, i - Len(wires) - Len(leds)), pinStates) = base
        /\ evaluate(Reverse(wires), Reverse(leds), Reverse(resistors), pinStates) = base
        /\ (Len(wires) >= 3 \/ Len(leds) >= 3 \/ Len(resistors) >= 3)
             => evaluate(Rotate(wires), Rotate(leds), Rotate(resistors), pinStates) = base

\* components are energized through a rail whose holes are chained in another
\* order when the lists are reversed
C18_Witness ==
    /\ { << 20, 0 >>, << 18, 0 >> } \subseteq occupied
    /\ activeIds # { }
    /\ groups(usedHoles(wires, leds, resistors))
         # groups(usedHoles(Reverse(wires), Reverse(leds), Reverse(resistors)))

(* C19: with pairwise distinct ids, activeNodes is exactly the set of the   *)
(* terminal nodes of the components in activeIds, and it is empty iff       *)
(* activeIds is empty.                                                      *)
terminalsOf(item) == { getHoleId(item.sR, item.sC), getHoleId(item.eR, item.eC) }

C19_NodesAreActiveTerminals ==
    distinctIds =>
        \E r \in { evaluate(wires, leds, resistors, pinStates) } :
            /\ r.activeNodes
                 = UNION { terminalsOf(allComps[i]) :
                           i \in { j \in 1..Len(allComps) : allComps[j].id \in r.activeIds } }
            /\ (r.activeNodes = { }) <=> (r.activeIds = { })

\* scenario A: one wire from GP15's row to a ground row and nothing else
C19_Witness ==
    /\ numComps = 1
    /\ wires = << Comp(1, 20, 1, 18, 7) >>
    /\ isHigh(pinStates, 15)
    /\ activeIds = { 1 }
    /\ activeNodes = { getHoleId(20, 1), getHoleId(18, 7) }

(* C15: the click that completes an edit changes, in the list of the edited *)
(* kind, only the components whose id is editingId (they keep their id and  *)
(* get the two clicked holes), and changes no list length and no other      *)
(* list; a removal deletes from the list of its kind the components with    *)
(* the given id, keeps the others in order and changes no other list.       *)
movedOnly(before, after, id, s, e) ==
    /\ Len(after) = Len(before)
    /\ \A k \in 1..Len(before) :
         /\ after[k].id = before[k].id
         /\ before[k].id # id => after[k] = before[k]
         /\ before[k].id = id => after[k] = Comp(id, s[1], s[2], e[1], e[2])

keptOnly(before, after, id) ==
    LET keep == { k \in 1..Len(before) : before[k].id # id }
    IN  /\ Len(after) = Cardinality(keep)
        /\ \A k \in keep : after[Cardinality({ j \in keep : j <= k })] = before[k]

editCompletes(h) ==
    /\ toolMode # "cursor" /\ editingId # NullId
    /\ draftStart # NullHole /\ draftStart # h
    /\ handleHoleClick(h[1], h[2])

C15_EditAndRemoveFrame ==
    [][ /\ \A h \in ClickHoles :
             editCompletes(h) =>
                 /\ editType = "wire" => movedOnly(wires, wires', editingId, draftStart, h)
                 /\ editType = "led" => movedOnly(leds, leds', editingId, draftStart, h)
                 /\ editType = "resistor"
                      => movedOnly(resistors, resistors', editingId, draftStart, h)
                 /\ editType # "wire" => wires' = wires
                 /\ editType # "led" => leds' = leds
                 /\ editType # "resistor" => resistors' = resistors
        /\ \A i \in 1..Len(wires) :
             removeWire(wires[i].id) =>
                 keptOnly(wires, wires', wires[i].id) /\ leds' = leds /\ resistors' = resistors
        /\ \A i \in 1..Len(leds) :
             removeLed(leds[i].id) =>
                 keptOnly(leds, leds', leds[i].id) /\ wires' = wires /\ resistors' = resistors
        /\ \A i \in 1..Len(resistors) :
             removeResistor(resistors[i].id) =>
                 keptOnly(resistors, resistors', resistors[i].id)
                 /\ wires' = wires /\ leds' = leds ]_vars

\* LED 1 was removed and wire 1 was moved to the two clicked holes: wire 2 and
\* resistor 1, which has the id of the moved wire, are as they were
C15_Witness ==
    /\ wires = << Comp(1, 20, 1, 28, 9), Comp(2, 28, 10, 18, 10) >>
    /\ leds = << >>
    /\ resistors = << Comp(1, 25, 3, 25, 6) >>
    /\ editingId = NullId
    /\ nEdits = 2

(* C17: a pin write changes the vector only if it is made by the program    *)
(* the most recent Run started (never by a program that was stopped or      *)
(* that an earlier Run started).                                            *)
C17_OnlyLatestRunWrites ==
    [][ \A p \in progs : \A pin \in Pins : \A state \in BOOLEAN :
            (picoPinUpdate(p, pin, state) /\ pinStates' # pinStates) => p = nRuns ]_vars

(* C20: editingId is null iff editType is null, and while an edit is in     *)
(* progress the tool mode is editType and is not 'cursor'.                  *)
C20_EditStateConsistent ==
    /\ (editingId = NullId) <=> (editType = NullType)
    /\ editingId # NullId => (toolMode = editType /\ toolMode # "cursor")

\* an edit is in progress, its first hole is clicked, after a change of the circuit
C20_Witness ==
    /\ editingId # NullId
    /\ draftStart # NullHole
    /\ nEdits >= 1

(* C21: the click that completes a two-click gesture (a draft is set, the   *)
(* tool is not the cursor, another hole is clicked) clears the draft and    *)
(* either appends exactly one component with the two holes as terminals or  *)
(* moves exactly one existing component to them; a click on the hole of the *)
(* draft only clears the draft.                                             *)
gestureCompletes(h) ==
    /\ toolMode # "cursor"
    /\ draftStart # NullHole /\ draftStart # h
    /\ handleHoleClick(h[1], h[2])

gestureCancelled(h) ==
    /\ toolMode # "cursor"
    /\ draftStart = h
    /\ handleHoleClick(h[1], h[2])

joins(c, s, e) == c.sR = s[1] /\ c.sC = s[2] /\ c.eR = e[1] /\ c.eC = e[2]

appendedOne(before, after, s, e) ==
    /\ Len(after) = Len(before) + 1
    /\ SubSeq(after, 1, Len(before)) = before
    /\ joins(after[Len(after)], s, e)

movedOne(before, after, id, s, e) ==
    /\ Cardinality({ k \in 1..Len(before) : before[k].id = id }) = 1
    /\ movedOnly(before, after, id, s, e)

C21_GestureHasEffect ==
    [][ \A h \in ClickHoles :
            /\ gestureCompletes(h) =>
                 /\ draftStart' = NullHole
                 /\ \/ appendedOne(wires, wires', draftStart, h)
                         /\ leds' = leds /\ resistors' = resistors
                    \/ appendedOne(leds, leds', draftStart, h)
                         /\ wires' = wires /\ resistors' = resistors
                    \/ appendedOne(resistors, resistors', draftStart, h)
                         /\ wires' = wires /\ leds' = leds
                    \/ movedOne(wires, wires', editingId, draftStart, h)
                         /\ leds' = leds /\ resistors' = resistors
                    \/ movedOne(leds, leds', editingId, draftStart, h)
                         /\ wires' = wires /\ resistors' = resistors
                    \/ movedOne(resistors, resistors', editingId, draftStart, h)
                         /\ wires' = wires /\ leds' = leds
            /\ gestureCancelled(h) =>
                 draftStart' = NullHole /\ UNCHANGED circuitVars ]_vars

====
